---- MODULE Spec2Model ----
(***************************************************************************)
(* The RBM recommender of testfm/models/theano_models.py: the data         *)
(* adapter (_convert), the minibatch training loop (fit / train_rbm), the  *)
(* PCD trainer step (get_cost_updates, compiled into train_rbm(index)),    *)
(* and the memoized predictor (_get_user_predictions / get_score).         *)
(*                                                                         *)
(* Real-valued quantities (W, hbias, vbias, mean-field vectors, scores)    *)
(* are not computed numerically.  A value is represented by the            *)
(* computation that produced it: the seed, the shapes, the minibatches     *)
(* applied in order and the random draws read.  Equal representations are  *)
(* equal numbers; the program is deterministic in these inputs.  A random  *)
(* draw is named by the stream it is read from (the n-th stream handed out *)
(* by the RandomStreams object) and its position on that stream.           *)
(***************************************************************************)
EXTENDS Integers, Sequences, FiniteSets, TLC

\* ------------------------------------------------------------- bounds
\* users and items that may occur in training records or in a score request
NUsers == 3
NItems == 2
\* longest list of training records enumerated for the data adapter
MaxRecords == 3
\* most users in a training set of the training-loop specification
MaxTrainUsers == 5
\* largest training_epochs passed to the constructor
MaxEpochs == 2
\* fits and prediction requests per run
MaxFits == 2
MaxRequests == 4
\* calls recorded per run in the two-run specification
MaxLog == 3
\* lru_cache(maxsize=1000) at line 425 and batch_size=20 at line 374, scaled
\* down so that eviction and a dropped trailing batch occur in small runs
MaxSize == 2
BatchSize == 2

\* ---------------------------------------------------- program constants
TrainSeed == 123
DefaultNHidden == 100
DefaultTrainingEpochs == 5
\* learning rates are written in hundredths: 0.1 is 10
DefaultLearningRate == 10

Users == 1..NUsers
Items == 1..NItems

Range(f) == {f[x] : x \in DOMAIN f}
EmptyMap == [x \in {} |-> 0]

\* ------------------------------------------------------- data adapter
\* a training record is <<user, item>>; training_data is a sequence of them
UserOf(rec) == rec[1]
ItemOf(rec) == rec[2]

\* variant of unique: the distinct values in ascending order
UniqueSorted(s) ==
    LET vals == Range(s)
        RECURSIVE Asc(_)
        Asc(S) == IF S = {} THEN <<>>
                  ELSE LET m == CHOOSE x \in S : \A y \in S : x <= y
                       IN <<m>> \o Asc(S \ {m})
    IN Asc(vals)

\* pandas Series.unique(): the distinct values in order of first appearance
RECURSIVE unique(_)
unique(s) ==
    IF s = <<>> THEN <<>>
    ELSE LET r == unique(SubSeq(s, 1, Len(s) - 1))
             x == s[Len(s)]
         IN IF \E j \in 1..Len(r) : r[j] = x THEN r ELSE Append(r, x)

\* {value: id for id, value in enumerate(seq)}
enumerate_map(seq) ==
    [x \in Range(seq) |-> (CHOOSE j \in 1..Len(seq) : seq[j] = x) - 1]

\* {user: set(entries) for user, entries in training_data.groupby('user')['item']}
group_items(training_data) ==
    [u \in {UserOf(training_data[k]) : k \in 1..Len(training_data)} |->
        {ItemOf(training_data[k]) :
            k \in {j \in 1..Len(training_data) : UserOf(training_data[j]) = u}}]

\* numpy.zeros((len(uid_map), len(iid_map))) followed by the loops that set
\* train_set_x[uid_map[user], iid_map[i]] = 1 for every i in users[user]
fill_matrix(uid_map, iid_map, users) ==
    [r \in 0..(Cardinality(DOMAIN uid_map) - 1) |->
        [c \in 0..(Cardinality(DOMAIN iid_map) - 1) |->
            IF \E user \in DOMAIN users : \E i \in users[user] :
                   uid_map[user] = r /\ iid_map[i] = c
            THEN 1 ELSE 0]]

_convert(training_data) ==
    LET iid_map == enumerate_map(unique([k \in 1..Len(training_data) |->
                                            ItemOf(training_data[k])]))
        uid_map == enumerate_map(unique([k \in 1..Len(training_data) |->
                                            UserOf(training_data[k])]))
        users == group_items(training_data)
    IN [train_set_x |-> fill_matrix(uid_map, iid_map, users),
        uid_map |-> uid_map, iid_map |-> iid_map, users |-> users]

\* ------------------------------------------------------------- state
VARIABLES
    training_epochs,   \* self.training_epochs, also the Gibbs depth k (line 403)
    training_data,     \* the argument of the last fit / _convert call
    matrix,            \* self.input after fit: the shared training matrix
    uid_map, iid_map, user_data,   \* the maps fit stores (lines 366-368)
    rbm,               \* self.rbm, the RBM that train_rbm constructs and trains
    pc,                \* "idle", or "train" inside the epoch loop of train_rbm
    epoch, batch_index, n_train_batches,   \* loop state of train_rbm
    persistent_chain,  \* the shared persistent chain of line 397
    bit_i_idx,         \* the shared bit index of get_pseudo_likelihood_cost
    calls,             \* history: the trainer invocations of the current fit
    fitCount,          \* history: completed fits
    cache,             \* the lru_cache of _get_user_predictions, oldest first
    clock, lastUse,    \* history: requests to _get_user_predictions, by user
    runs,              \* history: Gibbs runs per user since the user's eviction
    evicted,           \* history: the last eviction
    call, ret,         \* the last call and its outcome
    prev,              \* history: the call before it, with the kind of its outcome
    scored,            \* history: the first score of each (user, item) since the fit
    run, log, log1     \* the two-run specification: run number and call logs

dataVars == <<training_data, matrix, uid_map, iid_map, user_data>>
trainVars == <<rbm, pc, epoch, batch_index, n_train_batches, persistent_chain,
               bit_i_idx, calls, fitCount>>
cacheVars == <<cache, clock, lastUse, runs, evicted>>
runVars == <<run, log, log1>>
vars == <<training_epochs, dataVars, trainVars, cacheVars, call, ret, prev, scored,
          runVars>>

\* ------------------------------------------------------- values
\* a random draw: position pos on the stream-th stream of the RandomStreams
Draw(stream, pos) == [stream |-> stream, pos |-> pos]
\* numpy.zeros((batch_size, n_hidden)): no draw at all
ZeroChain == Draw(0, 0)
\* persistent=None of get_cost_updates
None == Draw(-1, 0)

\* W, hbias, vbias of an RBM: the seeded initial values of __init__ and the
\* updates applied since
Params(r) == [n_visible |-> r.n_visible, n_hidden |-> r.n_hidden,
              seed |-> r.seed, updates |-> r.updates]
NoRbm == [n_visible |-> 0, n_hidden |-> 0, seed |-> 0, streams |-> 0,
          updates |-> <<>>]
NoVec == [params |-> Params(NoRbm), v0 |-> <<>>, h |-> ZeroChain]
Outcome(kind, vec, col) == [kind |-> kind, vec |-> vec, col |-> col]
Call(op, user, item) == [op |-> op, user |-> user, item |-> item]
NotScored == [p \in Users \X Items |-> Outcome("none", NoVec, 0)]
Previous == [op |-> call.op, user |-> call.user, item |-> call.item,
             kind |-> ret.kind]

\* variant of rng_seed: a seed that differs from run to run
SeedByRun == TrainSeed + run
\* line 393: rng = numpy.random.RandomState(123), from which the RandomStreams
\* seed and the initial W are drawn
rng_seed == TrainSeed

\* RBM.__init__ as called at line 400, followed by get_cost_updates at line
\* 403, which builds the graph: sample_h_given_v (one binomial stream) and one
\* gibbs_hvh inside scan (two more streams)
NewRBM(n_visible, n_hidden) ==
    [n_visible |-> n_visible, n_hidden |-> n_hidden,
     seed |-> rng_seed, streams |-> 3, updates |-> <<>>]

\* ------------------------------------------------------- trainer
\* variant of chain_start: plain CD, the chain restarts from the positive phase
CDStart(persistent, ph_sample) == ph_sample
\* lines 224-227
chain_start(persistent, ph_sample) ==
    IF persistent = None THEN ph_sample ELSE persistent

\* lines 258-260: updates[persistent] = nh_samples[-1].  "if persistent:" is
\* true of every Theano variable, so only persistent=None skips the update
new_persistent(persistent, nh_last) ==
    IF persistent # None THEN nh_last ELSE persistent

\* train_set_x[lo:hi]: the row indices a Python slice takes
slice_rows(n_rows, lo, hi) == {r \in 0..(n_rows - 1) : lo <= r /\ r < hi}

\* variant of batches: the trailing partial batch is counted
CeilBatches(n_rows, batch_size) == (n_rows + batch_size - 1) \div batch_size
\* line 387, Python 2 integer division
batches(n_rows, batch_size) == n_rows \div batch_size

\* variant of next_bit: the index is advanced without wrapping around
NoWrap(bit, n_visible) == bit + 1
\* line 295
next_bit(bit, n_visible) == (bit + 1) % n_visible

\* line 277: xi = T.round(self.input), on cells that are 0 or 1
binarize(x) ==
    [r \in DOMAIN x |-> [c \in DOMAIN x[r] |-> IF 2 * x[r][c] >= 1 THEN 1 ELSE 0]]

\* line 285: xi_flip = T.set_subtensor(xi[:, bit_i_idx], 1 - xi[:, bit_i_idx])
flip_column(xi, bit) ==
    [r \in DOMAIN xi |->
        [c \in DOMAIN xi[r] |-> IF c = bit THEN 1 - xi[r][c] ELSE xi[r][c]]]

\* one call train_rbm(index) of the compiled function of line 410, with k =
\* training_epochs Gibbs steps: the t-th call reads draws (t-1)k+1..tk of the
\* two scan streams
TrainerCall(index) ==
    LET t == Len(rbm.updates) + 1
        k == training_epochs
        rows == slice_rows(Cardinality(DOMAIN matrix), index * BatchSize,
                           (index + 1) * BatchSize)
        x == [r \in rows |-> matrix[r]]
        ph_sample == Draw(1, t)
        start == chain_start(persistent_chain, ph_sample)
        nv_last == Draw(2, t * k)
        nh_last == Draw(3, t * k)
        xi == binarize(x)
        upd == [x |-> x, chain_start |-> start, chain_end |-> nv_last,
                lr |-> DefaultLearningRate]
    IN /\ rbm' = [rbm EXCEPT !.updates = Append(@, upd)]
       /\ persistent_chain' = new_persistent(persistent_chain, nh_last)
       /\ bit_i_idx' = next_bit(bit_i_idx, rbm.n_visible)
       /\ calls' = Append(calls, [epoch |-> epoch, index |-> index,
                                  rows |-> rows, chain_start |-> start,
                                  nh_last |-> nh_last, bit |-> bit_i_idx,
                                  xi |-> xi,
                                  xi_flip |-> flip_column(xi, bit_i_idx)])

\* ------------------------------------------------------- fit
\* fit up to the epoch loop: lines 365-372 and 387-412
FitBegin(d) ==
    /\ pc = "idle"
    /\ LET c == _convert(d)
       IN /\ training_data' = d
          /\ matrix' = c.train_set_x
          /\ uid_map' = c.uid_map
          /\ iid_map' = c.iid_map
          /\ user_data' = c.users
          /\ n_train_batches' = batches(Cardinality(DOMAIN c.uid_map), BatchSize)
          /\ rbm' = NewRBM(Cardinality(DOMAIN c.iid_map), DefaultNHidden)
    /\ persistent_chain' = ZeroChain
    /\ bit_i_idx' = 0
    /\ calls' = <<>>
    /\ epoch' = 0
    /\ batch_index' = 0
    /\ pc' = "train"
    /\ prev' = Previous
    /\ call' = Call("fit", 0, 0)
    /\ ret' = Outcome("fitting", NoVec, 0)
    /\ scored' = NotScored
    /\ UNCHANGED <<training_epochs, fitCount, cacheVars>>

\* line 418
TrainStep ==
    /\ pc = "train"
    /\ epoch < training_epochs
    /\ batch_index < n_train_batches
    /\ TrainerCall(batch_index)
    /\ batch_index' = batch_index + 1
    /\ UNCHANGED <<training_epochs, dataVars, pc, epoch, n_train_batches,
                   fitCount, cacheVars, call, ret, prev, scored>>

\* line 419 and the next iteration of line 414
EpochEnd ==
    /\ pc = "train"
    /\ epoch < training_epochs
    /\ batch_index = n_train_batches
    /\ epoch' = epoch + 1
    /\ batch_index' = 0
    /\ UNCHANGED <<training_epochs, dataVars, rbm, pc, n_train_batches,
                   persistent_chain, bit_i_idx, calls, fitCount, cacheVars,
                   call, ret, prev, scored>>

\* lines 421-423: train_rbm and fit return
TrainEnd ==
    /\ pc = "train"
    /\ epoch = training_epochs
    /\ pc' = "idle"
    /\ fitCount' = fitCount + 1
    /\ ret' = Outcome("fit_returned", NoVec, 0)
    /\ UNCHANGED <<training_epochs, dataVars, rbm, epoch, batch_index,
                   n_train_batches, persistent_chain, bit_i_idx, calls, cacheVars,
                   call, prev, scored>>

\* ------------------------------------------------------- predictor
\* variant of cache_get: no memoization
AlwaysMiss(c, user) == 0
\* lru_cache(maxsize=MaxSize) keyed by the user (one model instance): the
\* position of the user's entry, 0 on a miss
cache_get(c, user) ==
    IF \E j \in 1..Len(c) : c[j].key = user
    THEN CHOOSE j \in 1..Len(c) : c[j].key = user
    ELSE 0

\* variant of lru_touch: a hit leaves the order alone (first in, first out)
KeepOrder(c, j) == c
\* a hit makes the entry the most recently used one
lru_touch(c, j) ==
    SubSeq(c, 1, j - 1) \o SubSeq(c, j + 1, Len(c)) \o <<c[j]>>

\* a miss stores the result, replacing the oldest entry of a full cache
lru_insert(c, entry) ==
    IF Len(c) >= MaxSize THEN Append(Tail(c), entry) ELSE Append(c, entry)

\* lines 435-439: the single-row visible vector of the user's items
user_row(user_items) ==
    [c \in 0..(Cardinality(DOMAIN iid_map) - 1) |->
        IF \E i \in user_items : iid_map[i] = c THEN 1 ELSE 0]

\* lines 444 and 465: one gibbs_vhv on self.rbm.  sample_h_given_v and
\* sample_v_given_h each take a new stream; vis_mfs is the sigmoid of the
\* hidden SAMPLE propagated down, so it reads the first draw of the first
vis_mfs(user_items) ==
    [params |-> Params(rbm), v0 |-> user_row(user_items),
     h |-> Draw(rbm.streams + 1, 1)]

\* line 473: user_pred[0, iid]
index_vec(vec, iid) ==
    IF iid < Cardinality(DOMAIN vec.v0)
    THEN Outcome("score", vec, iid)
    ELSE Outcome("IndexError", NoVec, 0)

Request(user) ==
    /\ clock' = clock + 1
    /\ lastUse' = [lastUse EXCEPT ![user] = clock + 1]

\* variant of lookup_iid: an unknown item falls back to column 0
DefaultIndex(item) ==
    IF item \in DOMAIN iid_map THEN [ok |-> TRUE, iid |-> iid_map[item]]
    ELSE [ok |-> TRUE, iid |-> 0]
\* line 470: self.iid_map[item], a KeyError for an item fit did not index
lookup_iid(item) ==
    IF item \in DOMAIN iid_map THEN [ok |-> TRUE, iid |-> iid_map[item]]
    ELSE [ok |-> FALSE, iid |-> 0]

\* lines 467-473, with the lru_cache wrapper around _get_user_predictions
get_score(user, item) ==
    /\ pc = "idle"
    /\ clock < MaxRequests
    /\ prev' = Previous
    /\ call' = Call("get_score", user, item)
    /\ IF fitCount = 0
       THEN \* self.iid_map does not exist before fit
            /\ ret' = Outcome("AttributeError", NoVec, 0)
            /\ UNCHANGED <<rbm, cacheVars>>
       ELSE IF ~lookup_iid(item).ok
       THEN \* line 470
            /\ ret' = Outcome("KeyError", NoVec, 0)
            /\ UNCHANGED <<rbm, cacheVars>>
       ELSE LET j == cache_get(cache, user)
                iid == lookup_iid(item).iid
            IN IF j # 0
               THEN /\ cache' = lru_touch(cache, j)
                    /\ Request(user)
                    /\ ret' = index_vec(cache[j].val, iid)
                    /\ UNCHANGED <<rbm, runs, evicted>>
               ELSE IF user \notin DOMAIN user_data
               THEN \* line 433; nothing is cached
                    /\ Request(user)
                    /\ ret' = Outcome("KeyError", NoVec, 0)
                    /\ UNCHANGED <<rbm, cache, runs, evicted>>
               ELSE LET vec == vis_mfs(user_data[user])
                        full == Len(cache) >= MaxSize
                        old == Head(cache).key
                    IN /\ rbm' = [rbm EXCEPT !.streams = @ + 2]
                       /\ cache' = lru_insert(cache, [key |-> user, val |-> vec])
                       /\ Request(user)
                       /\ runs' = [u \in Users |->
                                     IF u = user THEN runs[u] + 1
                                     ELSE IF full /\ u = old THEN 0 ELSE runs[u]]
                       /\ evicted' =
                            IF full
                            THEN [key |-> old, stamp |-> lastUse[old],
                                  kept |-> {lastUse[cache[n].key] :
                                              n \in 2..Len(cache)}]
                            ELSE evicted
                       /\ ret' = index_vec(vec, iid)
    /\ scored' = IF ret'.kind = "score" /\ scored[<<user, item>>].kind = "none"
                 THEN [scored EXCEPT ![<<user, item>>] = ret']
                 ELSE scored
    /\ UNCHANGED <<training_epochs, dataVars, pc, epoch, batch_index,
                   n_train_batches, persistent_chain, bit_i_idx, calls, fitCount>>

\* lines 336-342, in hundredths; each tuple is (min, max, step, default)
param_details ==
    [learning_rate |-> <<1, 5, 50, 10>>,
     training_epochs |-> <<100, 5000, 500, 1500>>,
     n_hidden |-> <<1000, 100000, 1000, 10000>>]

ParamDetails ==
    /\ pc = "idle"
    /\ prev' = Previous
    /\ call' = Call("param_details", 0, 0)
    /\ ret' = Outcome("param_details", NoVec, 0)
    /\ UNCHANGED <<training_epochs, dataVars, trainVars, cacheVars, scored>>

\* ------------------------------------------------------- initial state
\* a constructed RBM that has not been fitted
InitRest ==
    /\ matrix = EmptyMap
    /\ uid_map = EmptyMap
    /\ iid_map = EmptyMap
    /\ user_data = EmptyMap
    /\ rbm = NoRbm
    /\ pc = "idle"
    /\ epoch = 0
    /\ batch_index = 0
    /\ n_train_batches = 0
    /\ persistent_chain = ZeroChain
    /\ bit_i_idx = 0
    /\ calls = <<>>
    /\ fitCount = 0
    /\ cache = <<>>
    /\ clock = 0
    /\ lastUse = [u \in Users |-> 0]
    /\ runs = [u \in Users |-> 0]
    /\ evicted = [key |-> 0, stamp |-> 0, kept |-> {}]
    /\ call = Call("__init__", 0, 0)
    /\ prev = [op |-> "none", user |-> 0, item |-> 0, kind |-> "none"]
    /\ scored = NotScored
    /\ ret = Outcome("none", NoVec, 0)
    /\ run = 1
    /\ log = <<>>
    /\ log1 = <<>>

\* RBM(training_epochs=MaxEpochs)
Init == training_epochs = MaxEpochs /\ training_data = <<>> /\ InitRest

\* RBM(training_epochs=e) for every e up to MaxEpochs
InitTrain == training_epochs \in 1..MaxEpochs /\ training_data = <<>> /\ InitRest

\* ------------------------------------------- training-loop specification
\* one record per user, users 1..n in order
OnePerUser(n) == [j \in 1..n |-> <<j, 1 + (j % NItems)>>]
TrainData == {OnePerUser(n) : n \in 0..MaxTrainUsers}

NextTrain ==
    \/ \E d \in TrainData : fitCount < MaxFits /\ FitBegin(d) /\ UNCHANGED runVars
    \/ TrainStep /\ UNCHANGED runVars
    \/ EpochEnd /\ UNCHANGED runVars
    \/ TrainEnd /\ UNCHANGED runVars
    \/ ParamDetails /\ UNCHANGED runVars

SpecTrain == InitTrain /\ [][NextTrain]_vars

\* ------------------------------------------------- main specification
\* a model that is fitted once and then asked for scores
PredictData == {<<<<1, 1>>>>, <<<<1, 1>>, <<1, 2>>>>, OnePerUser(NUsers)}

Next ==
    \/ \E d \in PredictData : fitCount = 0 /\ FitBegin(d) /\ UNCHANGED runVars
    \/ TrainStep /\ UNCHANGED runVars
    \/ EpochEnd /\ UNCHANGED runVars
    \/ TrainEnd /\ UNCHANGED runVars
    \/ \E u \in Users, i \in Items : get_score(u, i) /\ UNCHANGED runVars

Spec == Init /\ [][Next]_vars

\* ---------------------------------------------------- refit specification
\* a model that is fitted up to MaxFits times, with score requests in between
NextRefit ==
    \/ \E d \in PredictData : fitCount < MaxFits /\ FitBegin(d) /\ UNCHANGED runVars
    \/ TrainStep /\ UNCHANGED runVars
    \/ EpochEnd /\ UNCHANGED runVars
    \/ TrainEnd /\ UNCHANGED runVars
    \/ \E u \in Users, i \in Items : get_score(u, i) /\ UNCHANGED runVars

SpecRefit == Init /\ [][NextRefit]_vars

\* ----------------------------------------------- data-adapter specification
\* every list of at most MaxRecords records over Users x Items
ConvertData == UNION {[1..n -> Users \X Items] : n \in 0..MaxRecords}

InitConvert ==
    training_epochs = MaxEpochs /\ training_data \in ConvertData /\ InitRest

\* lines 365-368: self._convert(training_data) and the stores of its results
Convert ==
    /\ pc = "idle"
    /\ call.op = "__init__"
    /\ LET c == _convert(training_data)
       IN /\ matrix' = c.train_set_x
          /\ uid_map' = c.uid_map
          /\ iid_map' = c.iid_map
          /\ user_data' = c.users
    /\ prev' = Previous
    /\ call' = Call("_convert", 0, 0)
    /\ ret' = Outcome("converted", NoVec, 0)
    /\ UNCHANGED <<training_epochs, training_data, trainVars, cacheVars, scored,
                   runVars>>

NextConvert == Convert

SpecConvert == InitConvert /\ [][NextConvert]_vars

\* ---------------------------------------------------- two-run specification
\* Run 1 makes up to MaxLog calls (fits and score requests) on a new model in
\* a new process and logs each call with its outcome and the parameters it
\* leaves; run 2 starts from a new model in a new process and replays the
\* calls of run 1 in order.
RunData == {<<<<1, 1>>, <<1, 2>>>>, OnePerUser(NUsers)}

Logged(op, d, user, item) ==
    [op |-> op, data |-> d, user |-> user, item |-> item,
     ret |-> ret', params |-> Params(rbm')]

Wanted == log1[Len(log) + 1]
MayCall(op, d, user, item) ==
    IF run = 1 THEN Len(log) < MaxLog
    ELSE /\ Len(log) < Len(log1)
         /\ Wanted.op = op /\ Wanted.data = d
         /\ Wanted.user = user /\ Wanted.item = item

RunFitBegin(d) ==
    /\ MayCall("fit", d, 0, 0)
    /\ fitCount < MaxFits
    /\ FitBegin(d)
    /\ UNCHANGED runVars

RunTrainEnd ==
    /\ TrainEnd
    /\ log' = Append(log, Logged("fit", training_data, 0, 0))
    /\ UNCHANGED <<run, log1>>

RunGetScore(u, i) ==
    /\ MayCall("get_score", <<>>, u, i)
    /\ get_score(u, i)
    /\ log' = Append(log, Logged("get_score", <<>>, u, i))
    /\ UNCHANGED <<run, log1>>

\* the process ends; the same program is started again
Restart ==
    /\ run = 1
    /\ pc = "idle"
    /\ log # <<>>
    /\ run' = 2
    /\ log1' = log
    /\ log' = <<>>
    /\ training_data' = <<>>
    /\ matrix' = EmptyMap
    /\ uid_map' = EmptyMap
    /\ iid_map' = EmptyMap
    /\ user_data' = EmptyMap
    /\ rbm' = NoRbm
    /\ epoch' = 0
    /\ batch_index' = 0
    /\ n_train_batches' = 0
    /\ persistent_chain' = ZeroChain
    /\ bit_i_idx' = 0
    /\ calls' = <<>>
    /\ fitCount' = 0
    /\ cache' = <<>>
    /\ clock' = 0
    /\ lastUse' = [u \in Users |-> 0]
    /\ runs' = [u \in Users |-> 0]
    /\ evicted' = [key |-> 0, stamp |-> 0, kept |-> {}]
    /\ prev' = [op |-> "none", user |-> 0, item |-> 0, kind |-> "none"]
    /\ scored' = NotScored
    /\ call' = Call("__init__", 0, 0)
    /\ ret' = Outcome("none", NoVec, 0)
    /\ UNCHANGED <<training_epochs, pc>>

NextRuns ==
    \/ \E d \in RunData : RunFitBegin(d)
    \/ TrainStep /\ UNCHANGED runVars
    \/ EpochEnd /\ UNCHANGED runVars
    \/ RunTrainEnd
    \/ \E u \in Users, i \in Items : RunGetScore(u, i)
    \/ Restart

SpecRuns == Init /\ [][NextRuns]_vars

\* ---------------------------------------------------------- properties
GotScore == call.op = "get_score" /\ ret.kind = "score"

\* C1: on a fitted model a get_score for an item that is not in the item
\* index map ends in a KeyError, whoever the user is and whatever is cached;
\* it never yields a score.
C1_UnknownItemFails ==
    (call.op = "get_score" /\ fitCount > 0 /\ call.item \notin DOMAIN iid_map)
        => ret.kind = "KeyError"

\* a request for an unknown item by a user whose prediction is cached
C1_Witness ==
    /\ call.op = "get_score" /\ fitCount > 0
    /\ call.item \notin DOMAIN iid_map
    /\ cache_get(cache, call.user) # 0
    /\ ret.kind = "KeyError"

\* C2: between two evictions of a user's entry at most one Gibbs run is made
\* for that user, however many items are scored for the user.
C2_OneRunPerUser == \A u \in Users : runs[u] <= 1

\* two consecutive calls scored different items for one user from one run
C2_Witness ==
    /\ GotScore
    /\ prev.op = "get_score" /\ prev.kind = "score"
    /\ prev.user = call.user /\ prev.item # call.item
    /\ runs[call.user] = 1

\* C3: a score returned by get_score is read from a vector computed from the
\* parameters and maps of the latest fit.
C3_ScoreFromLatestFit ==
    (call.op = "get_score" /\ ret.kind \in {"score", "IndexError"})
        => /\ ret.kind = "score"
           /\ ret.vec.params = Params(rbm)
           /\ call.user \in DOMAIN user_data
           /\ ret.vec.v0 = user_row(user_data[call.user])

\* C5: the cache never holds more than MaxSize entries, and an evicted entry
\* was requested longer ago than every entry kept.
C5_BoundedLRU ==
    /\ Len(cache) <= MaxSize
    /\ \A stamp \in evicted.kept : evicted.stamp < stamp

\* an eviction from a full cache
C5_Witness ==
    /\ evicted.key # 0
    /\ Len(cache) = MaxSize
    /\ evicted.kept # {}

\* C8: param_details agrees with the documented ranges and with the
\* constructor's defaults; min <= default <= max in every tuple.
C8_ParamDetailsAgree ==
    ret.kind = "param_details" =>
        LET lr == param_details.learning_rate
            te == param_details.training_epochs
            nh == param_details.n_hidden
        IN /\ lr[1] = 1 /\ lr[2] = 50 /\ lr[4] = 10
           /\ te[1] = 100 /\ te[2] = 5000 /\ te[4] = 500
           /\ \A t \in {lr, te, nh} : t[1] <= t[4] /\ t[4] <= t[2]
           /\ lr[4] = DefaultLearningRate
           /\ te[4] = 100 * DefaultTrainingEpochs
           /\ nh[4] = 100 * DefaultNHidden

\* C4: a fit over fewer distinct users than batch_size does not return
\* normally.
C4_SmallFitRaises ==
    (call.op = "fit" /\ Cardinality(DOMAIN uid_map) < BatchSize)
        => ret.kind # "fit_returned"

FloorBatches == Cardinality(DOMAIN matrix) \div BatchSize

\* C9: the trainer invocations of a fit are, in order, epochs 0, 1, ... each
\* with minibatches 0..floor(n_users/b)-1 in increasing order, minibatch i
\* being exactly the rows i*b..(i+1)*b-1; a returned fit has made exactly
\* training_epochs * floor(n_users/b) of them.
C9_MinibatchSchedule ==
    /\ \A j \in 1..Len(calls) :
          /\ FloorBatches > 0
          /\ calls[j].epoch = (j - 1) \div FloorBatches
          /\ calls[j].index = (j - 1) % FloorBatches
          /\ calls[j].rows =
                (calls[j].index * BatchSize)..((calls[j].index + 1) * BatchSize - 1)
          /\ \A r \in calls[j].rows : r < FloorBatches * BatchSize
    /\ (call.op = "fit" /\ ret.kind = "fit_returned")
          => Len(calls) = training_epochs * FloorBatches

\* a returned fit of several epochs and minibatches that dropped a row
C9_Witness ==
    /\ call.op = "fit" /\ ret.kind = "fit_returned"
    /\ training_epochs >= 2
    /\ FloorBatches >= 2
    /\ Cardinality(DOMAIN matrix) > FloorBatches * BatchSize
    /\ Len(calls) = training_epochs * FloorBatches

\* C10: every minibatch's negative phase starts from the persistent state:
\* zeros for the first minibatch of a fit, afterwards the final hidden sample
\* of the k-step chain of the preceding minibatch, also across epochs.
C10_PersistentChain ==
    /\ \A j \in 1..Len(calls) :
          /\ calls[j].nh_last = Draw(3, j * training_epochs)
          /\ calls[j].chain_start =
                IF j = 1 THEN ZeroChain ELSE calls[j - 1].nh_last
    /\ pc = "train" =>
          persistent_chain =
             IF calls = <<>> THEN ZeroChain ELSE calls[Len(calls)].nh_last

\* a minibatch of a later epoch started from the chain the last minibatch of
\* the epoch before left
C10_Witness ==
    \E j \in 2..Len(calls) :
        /\ calls[j].epoch = calls[j - 1].epoch + 1
        /\ calls[j].chain_start = calls[j - 1].nh_last
        /\ calls[j].chain_start # ZeroChain

FirstAt(seq, x) == CHOOSE k \in 1..Len(seq) :
                      seq[k] = x /\ \A j \in 1..(k - 1) : seq[j] # x
\* the number of distinct values before the first occurrence of x
FirstSeenIndex(seq, x) ==
    Cardinality({seq[j] : j \in 1..(FirstAt(seq, x) - 1)})
InsertAfter(seq, p, x) ==
    SubSeq(seq, 1, p) \o <<x>> \o SubSeq(seq, p + 1, Len(seq))

\* C7: _convert indexes users and items in first-seen order, sets cell
\* [user index, item index] to 1 exactly for the pairs that occur in the
\* records and to 0 elsewhere, and a repeated record leaves the matrix as it is.
C7_ConvertMatrix ==
    call.op = "_convert" =>
        LET d == training_data
            us == [k \in 1..Len(d) |-> UserOf(d[k])]
            is == [k \in 1..Len(d) |-> ItemOf(d[k])]
        IN /\ DOMAIN uid_map = Range(us)
           /\ DOMAIN iid_map = Range(is)
           /\ \A u \in Range(us) : uid_map[u] = FirstSeenIndex(us, u)
           /\ \A i \in Range(is) : iid_map[i] = FirstSeenIndex(is, i)
           /\ DOMAIN matrix = 0..(Cardinality(Range(us)) - 1)
           /\ \A u \in Range(us) :
                 /\ DOMAIN matrix[uid_map[u]] = 0..(Cardinality(Range(is)) - 1)
                 /\ \A i \in Range(is) :
                       matrix[uid_map[u]][iid_map[i]] =
                          IF \E k \in 1..Len(d) : d[k] = <<u, i>> THEN 1 ELSE 0
           /\ \A k \in 1..Len(d) : \A p \in k..Len(d) :
                 _convert(InsertAfter(d, p, d[k])).train_set_x = matrix

\* records with a repeated pair, and users and items first seen out of order
C7_Witness ==
    /\ call.op = "_convert"
    /\ \E j, k \in 1..Len(training_data) :
          j < k /\ training_data[j] = training_data[k]
    /\ \E u, v \in DOMAIN uid_map : u < v /\ uid_map[u] > uid_map[v]
    /\ \E i, j \in DOMAIN iid_map : i < j /\ iid_map[i] > iid_map[j]
    /\ \E r \in DOMAIN matrix : \E c \in DOMAIN matrix[r] : matrix[r][c] = 0

\* C11: in a model with visible units the bit index of the pseudo-likelihood
\* cost is 0 when a fit starts, lies in 0..n_visible-1 in every state, and is
\* advanced by one modulo n_visible by every trainer call; call number t of a
\* fit (from 0) flips column t mod n_visible in every row of the binarized
\* minibatch and no other cell.
C11_RotatingBit ==
    rbm.n_visible > 0 =>
        /\ bit_i_idx \in 0..(rbm.n_visible - 1)
        /\ bit_i_idx = Len(calls) % rbm.n_visible
        /\ \A j \in 1..Len(calls) :
              LET col == (j - 1) % rbm.n_visible
                  rows == calls[j].rows
              IN /\ calls[j].bit = col
                 /\ DOMAIN calls[j].xi_flip = rows
                 /\ \A r \in rows : \A c \in 0..(rbm.n_visible - 1) :
                       /\ calls[j].xi[r][c] = matrix[r][c]
                       /\ calls[j].xi_flip[r][c] =
                             IF c = col THEN 1 - matrix[r][c] ELSE matrix[r][c]

\* the index has wrapped around to column 0, and a call after the wrap flipped
\* a 1 to 0 in one row and a 0 to 1 in another
C11_Witness ==
    /\ rbm.n_visible >= 2
    /\ \E j \in (rbm.n_visible + 1)..Len(calls) :
          /\ calls[j].bit = 0
          /\ \E r, q \in calls[j].rows :
                /\ calls[j].xi[r][0] = 1 /\ calls[j].xi_flip[r][0] = 0
                /\ calls[j].xi[q][0] = 0 /\ calls[j].xi_flip[q][0] = 1

\* C12: on a model that has not been fitted again, every score returned for a
\* (user, item) equals the first score returned for that pair since the fit,
\* whatever was scored in between.
C12_SameScoreEveryCall ==
    GotScore => ret = scored[<<call.user, call.item>>]

====
